---- MODULE Spec2Model ----
(***************************************************************************)
(* Model of day19.py: the branch-and-bound search for the maximum number   *)
(* of geodes (MaterialSet, upper_bound, lower_bound, prune_strictly_worse, *)
(* find_max_geodes and the Global caches and counters).                    *)
(***************************************************************************)
EXTENDS Integers, Sequences, FiniteSets, TLC

(***************************************************************************)
(* Bounds of the model                                                     *)
(***************************************************************************)
\* largest number of minutes of a search in the general specification
MaxMinutes == 7
\* largest ore cost of an ore, clay or obsidian robot in the drawn blueprints
MaxCost == 3
\* largest clay or obsidian cost, and largest ore cost of a geode robot
MaxOther == 1
\* number of find_max_geodes calls made in one process (SpecCalls)
MaxCalls == 3
\* largest minutes of a call in SpecCalls (the calls use the three largest)
MaxCallMinutes == 6
\* largest absolute value of a component of the vectors drawn for the vector laws
MaxVec == 1
\* largest total of the materials and robots of a state drawn for the estimators
MaxStart == 2
\* largest minutes_left the estimators are applied with
MaxLeft == 5
\* largest number of remaining steps of the two states compared for dominance
MaxDomLeft == 4
\* largest minutes of a search made with and without the ore-robot skip
MaxSkipMinutes == 9
\* largest number written in a drawn move line (besides 10)
MaxNumber == 3
\* largest number of containers on a drawn stack
MaxHeight == 2

(***************************************************************************)
(* class Resource: ORE = 0 .. GEODE = 3 in the source; here the position   *)
(* of the resource in a 4-tuple, 1 .. 4, in the same order.                *)
(***************************************************************************)
ORE == 1
CLAY == 2
OBSIDIAN == 3
GEODE == 4
Resource == <<ORE, CLAY, OBSIDIAN, GEODE>>
\* reversed(Resource)
ReversedResource == <<GEODE, OBSIDIAN, CLAY, ORE>>
\* built_robot_type = None
None == 0
\* parent = None, best_final_state = None
NoState == <<>>

(***************************************************************************)
(* class MaterialSet: a 4-tuple <<ore, clay, obsidian, geode>>             *)
(***************************************************************************)
MaterialSet(ore, clay, obsidian, geode) == <<ore, clay, obsidian, geode>>

\* MaterialSet.__add__
Add(a, b) == [i \in 1..4 |-> a[i] + b[i]]

\* a bug of __sub__: the geode component is not subtracted
SubNoGeode(a, b) == [i \in 1..4 |-> IF i = GEODE THEN a[i] ELSE a[i] - b[i]]

\* MaterialSet.__sub__
Sub(a, b) == [i \in 1..4 |-> a[i] - b[i]]

\* MaterialSet.__mul__
Mul(a, n) == [i \in 1..4 |-> a[i] * n]

\* a bug of __le__: any instead of all
LeAny(a, b) == \E i \in 1..4 : a[i] <= b[i]

\* MaterialSet.__le__
Le(a, b) == \A i \in 1..4 : a[i] <= b[i]

\* MaterialSet.__eq__ (dataclass equality over the four fields)
Eq(a, b) == \A i \in 1..4 : a[i] = b[i]

\* MaterialSet.add_one_resource
AddOneResource(a, resource) ==
  Add(a, [i \in 1..4 |-> IF i = resource THEN 1 ELSE 0])

(***************************************************************************)
(* upper_bound: the simulation loop (lines 136-143)                        *)
(***************************************************************************)
\* the first resource of reversed(Resource), from position k on, whose robot
\* is affordable; None if there is none
\* a bug of line 139: Resource is walked in its own order, ore first
RECURSIVE FirstAffordableOreFirst(_, _, _)
FirstAffordableOreFirst(blueprint, materials, k) ==
  IF k > 4 THEN None
  ELSE IF Le(blueprint[Resource[k]], materials) THEN Resource[k]
  ELSE FirstAffordableOreFirst(blueprint, materials, k + 1)

RECURSIVE FirstAffordable(_, _, _)
FirstAffordable(blueprint, materials, k) ==
  IF k > 4 THEN None
  ELSE IF Le(blueprint[ReversedResource[k]], materials) THEN ReversedResource[k]
  ELSE FirstAffordable(blueprint, materials, k + 1)

\* a bug of line 136: the loop runs minutes_left + 1 times
RECURSIVE UpperBoundLoopOneMore(_, _, _, _)
UpperBoundLoopOneMore(materials, robots, blueprint, n) ==
  IF n < 0 THEN materials[GEODE]
  ELSE LET m2 == Add(materials, robots)
           r  == FirstAffordable(blueprint, m2, 1)
           r2 == IF r = None THEN robots ELSE AddOneResource(robots, r)
       IN UpperBoundLoopOneMore(m2, r2, blueprint, n - 1)

RECURSIVE UpperBoundLoop(_, _, _, _)
UpperBoundLoop(materials, robots, blueprint, n) ==
  IF n <= 0 THEN materials[GEODE]
  ELSE LET m2 == Add(materials, robots)
           r  == FirstAffordable(blueprint, m2, 1)
           r2 == IF r = None THEN robots ELSE AddOneResource(robots, r)
       IN UpperBoundLoop(m2, r2, blueprint, n - 1)

(***************************************************************************)
(* lower_bound: the simulation loop (lines 153-160)                        *)
(***************************************************************************)
\* a bug of line 156: the geode robot is not paid for
RECURSIVE LowerBoundLoopFree(_, _, _, _)
LowerBoundLoopFree(materials, robots, blueprint, n) ==
  IF n <= 0 THEN materials[GEODE]
  ELSE IF Le(blueprint[GEODE], materials)
       THEN LowerBoundLoopFree(Add(materials, robots),
                               AddOneResource(robots, GEODE), blueprint, n - 1)
       ELSE LowerBoundLoopFree(Add(materials, robots), robots, blueprint, n - 1)

RECURSIVE LowerBoundLoop(_, _, _, _)
LowerBoundLoop(materials, robots, blueprint, n) ==
  IF n <= 0 THEN materials[GEODE]
  ELSE IF Le(blueprint[GEODE], materials)
       THEN LowerBoundLoop(Add(Sub(materials, blueprint[GEODE]), robots),
                           AddOneResource(robots, GEODE), blueprint, n - 1)
       ELSE LowerBoundLoop(Add(materials, robots), robots, blueprint, n - 1)


(***************************************************************************)
(* State of the program                                                    *)
(***************************************************************************)
VARIABLES
  \* class Global
  n_states_searched, ub_cache, ub_cache_hits, ub_cache_reads,
  lb_cache, lb_cache_hits, lb_cache_reads,
  \* find_max_geodes: arguments, locals and position
  pc, blueprint, minutes, max_ore_cost, best_result, best_final_state,
  next_states, current_states, t, pos,
  \* the calls the process may still make, and the arguments it draws from
  inputs, calls_left,
  \* history: the completed calls (arguments and result) in order, the list
  \* handed to the latest prune_strictly_worse call, and for every
  \* (materials, robots) key the time steps t at which the estimators were
  \* called with it in this run
  history, prune_input, evaluated,
  \* history: for every state visited so far in the current iteration of
  \* `for t`, its key, the number of its ancestors, t, the values that
  \* lower_bound and upper_bound returned for it, and whether its successors
  \* were appended to next_states
  estimates,
  \* the estimators applied to a drawn state, and a real build sequence
  sim,
  \* two drawn vectors and the results of the MaterialSet operations
  vec,
  \* day5_1.py: the stacks, the input line and the position of execute_move
  crates

search_vars == <<n_states_searched, ub_cache, ub_cache_hits, ub_cache_reads,
                 lb_cache, lb_cache_hits, lb_cache_reads,
                 pc, blueprint, minutes, max_ore_cost, best_result,
                 best_final_state, next_states, current_states, t, pos,
                 inputs, calls_left, history, prune_input, evaluated, estimates>>
vars == <<search_vars, sim, vec, crates>>

\* @dataclass State
State(materials, robots, built_robot_type, parent) ==
  [materials |-> materials, robots |-> robots,
   built_robot_type |-> built_robot_type, parent |-> parent]

\* cache_key = (materials.data, robots.data)
CacheKey(materials, robots) == <<materials, robots>>

\* Global.read_ub_cache / Global.read_lb_cache: the cached value, or None.
\* None and 0 are both falsy at the call sites, so None is modelled as 0.
ReadCache(cache, key) == IF key \in DOMAIN cache THEN cache[key] ELSE 0

\* Global.ub_cache[cache_key] = value
WriteCache(cache, key, value) ==
  (key :> value) @@ cache

\* an empty dict()
EmptyCache == [k \in {} |-> 0]

\* a bug of lines 181-182: the cache of the earlier run is kept
KeptCache(old) == old

\* Global.lb_cache = dict() / Global.ub_cache = dict() (lines 181-182)
NewCache(old) == EmptyCache

\* upper_bound(state, blueprint, minutes_left) with the cache `cache`:
\* the value returned and the cache afterwards
upper_bound(state, bp, minutes_left, cache) ==
  LET key    == CacheKey(state.materials, state.robots)
      cached == ReadCache(cache, key)
  IN IF cached # 0
     THEN [result |-> cached, cache |-> cache]
     ELSE LET v == UpperBoundLoop(state.materials, state.robots, bp, minutes_left)
          IN [result |-> v, cache |-> WriteCache(cache, key, v)]

\* lower_bound(state, blueprint, minutes_left) with the cache `cache`
lower_bound(state, bp, minutes_left, cache) ==
  LET key    == CacheKey(state.materials, state.robots)
      cached == ReadCache(cache, key)
  IN IF cached # 0
     THEN [result |-> cached, cache |-> cache]
     ELSE LET v == LowerBoundLoop(state.materials, state.robots, bp, minutes_left)
          IN [result |-> v, cache |-> WriteCache(cache, key, v)]

\* a bug of lines 170-171: identical states are not skipped
StrictlyWorseNoSkip(state, states) ==
  \E j \in 1..Len(states) :
     /\ Le(state.materials, states[j].materials)
     /\ Le(state.robots, states[j].robots)

\* the test of the inner loop of prune_strictly_worse (lines 169-174)
StrictlyWorse(state, states) ==
  \E j \in 1..Len(states) :
     /\ ~(Eq(state.materials, states[j].materials) /\ Eq(state.robots, states[j].robots))
     /\ Le(state.materials, states[j].materials)
     /\ Le(state.robots, states[j].robots)

\* prune_strictly_worse
prune_strictly_worse(states) ==
  SelectSeq(states, LAMBDA s : ~StrictlyWorse(s, states))

\* a bug of line 183: min instead of max
MinOreCost(bp) ==
  CHOOSE m \in {bp[r][ORE] : r \in 1..4} : \A r \in 1..4 : bp[r][ORE] >= m

\* a number of ore robots that no state of a run reaches: with it as
\* max_ore_cost the test of line 207 never succeeds
NoSkip == MaxMinutes + MaxSkipMinutes + 2

\* max(cost.ore for cost in blueprint.values())
MaxOreCost(bp) ==
  CHOOSE m \in {bp[r][ORE] : r \in 1..4} : \A r \in 1..4 : bp[r][ORE] <= m

\* a bug of line 193: the comparison with best_result is lost
LatestResult(lb, best) == lb

\* a bug of line 194: best_result is not assigned
KeptResult(lb, best) == best

\* best_result after lines 193-194
BetterResult(lb, best) == IF lb > best THEN lb ELSE best

\* a bug of lines 203 and 215: the new State does not refer to its parent
RefLost(state) == <<state.built_robot_type>>

\* a reference to `state`: the State objects of a run form a tree, and a
\* State is identified by the built_robot_type of every State on the way from
\* the initial state to it
Ref(state) == Append(state.parent, state.built_robot_type)

\* a bug of line 212: the cost of the robot is not subtracted
BuildStateFree(state, bp, robot_type) ==
  State(Add(state.materials, state.robots),
        AddOneResource(state.robots, robot_type), robot_type, Ref(state))

\* the successor that builds robot_type (lines 211-216)
BuildState(state, bp, robot_type) ==
  State(Sub(Add(state.materials, state.robots), bp[robot_type]),
        AddOneResource(state.robots, robot_type), robot_type, Ref(state))

\* a bug of line 210: a robot is built whether it is affordable or not
RECURSIVE BuildStatesUnguarded(_, _, _, _)
BuildStatesUnguarded(state, bp, maxore, k) ==
  IF k > 4 THEN <<>>
  ELSE LET robot_type == Resource[k]
           rest == BuildStatesUnguarded(state, bp, maxore, k + 1)
       IN IF robot_type = ORE /\ state.robots[ORE] >= maxore THEN rest
          ELSE <<BuildState(state, bp, robot_type)>> \o rest

\* the successors appended for robot types k..4 (lines 206-216)
RECURSIVE BuildStates(_, _, _, _)
BuildStates(state, bp, maxore, k) ==
  IF k > 4 THEN <<>>
  ELSE LET robot_type == Resource[k]
           rest == BuildStates(state, bp, maxore, k + 1)
       IN IF robot_type = ORE /\ state.robots[ORE] >= maxore THEN rest
          ELSE IF Le(bp[robot_type], state.materials)
               THEN <<BuildState(state, bp, robot_type)>> \o rest
               ELSE rest

\* everything appended to next_states for one expanded state (lines 199-216)
Successors(state, bp, maxore) ==
  <<State(Add(state.materials, state.robots), state.robots, None, Ref(state))>>
    \o BuildStates(state, bp, maxore, 1)

\* State(MaterialSet(), MaterialSet(ore=1), None, None)
initial_state ==
  State(MaterialSet(0, 0, 0, 0), MaterialSet(1, 0, 0, 0), None, NoState)



(***************************************************************************)
(* path and trace                                                          *)
(***************************************************************************)
\* path(final_state): the States from the initial state to final_state, each
\* given by its built_robot_type; the empty list for None
path(final_state) ==
  IF final_state = NoState THEN <<>> ELSE Ref(final_state[1])

\* trace, minutes `minute`..minutes_remaining of the loop (lines 233-251):
\* the geodes held at the end, and whether every robot was affordable when
\* its cost was subtracted
RECURSIVE TraceLoop(_, _, _, _, _, _, _)
TraceLoop(state_path, bp, materials, robots, minute, minutes_remaining, affordable) ==
  IF minute > minutes_remaining
  THEN [geodes |-> materials[GEODE], affordable |-> affordable]
  ELSE LET built_robot ==
             IF minute < Len(state_path) THEN state_path[minute + 1]
             ELSE IF Le(bp[GEODE], materials) THEN GEODE
             ELSE None
           paid == IF built_robot # None THEN Sub(materials, bp[built_robot])
                   ELSE materials
       IN TraceLoop(state_path, bp, Add(paid, robots),
                    IF built_robot # None THEN AddOneResource(robots, built_robot)
                    ELSE robots,
                    minute + 1, minutes_remaining,
                    affordable /\ (built_robot # None => Le(bp[built_robot], materials)))

\* trace(final_state, blueprint, minutes_remaining)
trace(final_state, bp, minutes_remaining) ==
  TraceLoop(path(final_state), bp, MaterialSet(0, 0, 0, 0), MaterialSet(1, 0, 0, 0),
            1, minutes_remaining, TRUE)

(***************************************************************************)
(* The arguments the calls are drawn from                                  *)
(***************************************************************************)
\* a blueprint: the cost of the robot of each resource, in the order of Resource
Blueprint(ore, clay, obsidian, geode) == <<ore, clay, obsidian, geode>>

Blueprints ==
  { Blueprint(MaterialSet(a, 0, 0, 0), MaterialSet(b, 0, 0, 0),
              MaterialSet(c, d, 0, 0), MaterialSet(e, f, g, 0)) :
      a \in 1..MaxCost, b \in 1..MaxCost, c \in 1..MaxCost,
      d \in 0..MaxOther, e \in 0..MaxOther, f \in 0..MaxOther, g \in 0..MaxOther }

Inputs == Blueprints \X (-1..MaxMinutes)

\* the two blueprints of the reference scenario, with minutes = 24
Blueprint1 == Blueprint(MaterialSet(4, 0, 0, 0), MaterialSet(2, 0, 0, 0),
                        MaterialSet(3, 14, 0, 0), MaterialSet(2, 0, 7, 0))
Blueprint2 == Blueprint(MaterialSet(2, 0, 0, 0), MaterialSet(3, 0, 0, 0),
                        MaterialSet(3, 8, 0, 0), MaterialSet(3, 0, 12, 0))
RefInputs == {<<Blueprint1, 24>>, <<Blueprint2, 24>>}

\* the blueprints of a process that makes several calls
CallBlueprints ==
  { Blueprint(MaterialSet(1, 0, 0, 0), MaterialSet(1, 0, 0, 0),
              MaterialSet(1, 0, 0, 0), MaterialSet(1, 0, 1, 0)),
    Blueprint(MaterialSet(1, 0, 0, 0), MaterialSet(1, 0, 0, 0),
              MaterialSet(1, 1, 0, 0), MaterialSet(0, 1, 0, 0)),
    Blueprint(MaterialSet(2, 0, 0, 0), MaterialSet(1, 0, 0, 0),
              MaterialSet(1, 0, 0, 0), MaterialSet(0, 0, 1, 0)),
    Blueprint(MaterialSet(2, 0, 0, 0), MaterialSet(1, 0, 0, 0),
              MaterialSet(3, 0, 0, 0), MaterialSet(0, 1, 0, 0)) }
CallInputs == CallBlueprints \X ((MaxCallMinutes - 2)..MaxCallMinutes)

\* the blueprints searched with and without the ore-robot skip: an ore robot
\* costs one ore, a geode robot needs obsidian
SkipBlueprints ==
  { Blueprint(MaterialSet(1, 0, 0, 0), MaterialSet(b, 0, 0, 0),
              MaterialSet(c, d, 0, 0), MaterialSet(e, 0, 1, 0)) :
      b \in 1..MaxCost, c \in 1..MaxCost, d \in 0..MaxOther, e \in 0..MaxOther }

\* the set of arguments a process draws its calls from
\* ("Mono": any first call, then the same blueprint with one more minute;
\* "Skip": any first call, then the same arguments searched without the
\* ore-robot skip of lines 207-209)
InputSet(name, calls) ==
  CASE name = "Inputs" -> Inputs
    [] name = "RefInputs" -> RefInputs
    [] name = "CallInputs" -> CallInputs
    [] name = "Skip" -> IF calls # <<>>
                        THEN {<<calls[Len(calls)].blueprint, calls[Len(calls)].minutes, FALSE>>}
                        ELSE SkipBlueprints \X (0..MaxSkipMinutes) \X {TRUE}
    [] name = "Mono" -> IF calls # <<>>
                        THEN {<<calls[Len(calls)].blueprint, calls[Len(calls)].minutes + 1>>}
                        ELSE Blueprints \X (0..MaxMinutes - 1)

\* the blueprints the estimators are applied with
BoundBlueprints ==
  { Blueprint(MaterialSet(a, 0, 0, 0), MaterialSet(1, 0, 0, 0),
              MaterialSet(1, d, 0, 0), MaterialSet(0, f, g, 0)) :
      a \in 1..2, d \in 0..MaxOther, f \in 0..MaxOther, g \in 0..MaxOther }

\* the non-negative (materials, robots) pairs the estimators are applied to
StartStates ==
  LET total(v) == v[1] + v[2] + v[3] + v[4] + v[5] + v[6] + v[7] + v[8]
      V == { v \in [1..8 -> 0..MaxStart] : total(v) <= MaxStart }
  IN { <<MaterialSet(v[1], v[2], v[3], v[4]), MaterialSet(v[5], v[6], v[7], v[8])>> : v \in V }

\* the vectors drawn for the MaterialSet laws
Vectors == { MaterialSet(w, x, y, z) : w \in -MaxVec..MaxVec, x \in -MaxVec..MaxVec,
                                       y \in -MaxVec..MaxVec, z \in -MaxVec..MaxVec }

NoSim == [pc |-> "off"]
NoVec == [pc |-> "off"]
NoCrates == [pc |-> "off"]

(***************************************************************************)
(* Initial states                                                          *)
(***************************************************************************)
\* the class attributes of Global and a process that has called nothing yet
InitGlobal ==
  /\ n_states_searched = 0
  /\ ub_cache = EmptyCache /\ ub_cache_hits = 0 /\ ub_cache_reads = 0
  /\ lb_cache = EmptyCache /\ lb_cache_hits = 0 /\ lb_cache_reads = 0
  /\ pc = "idle"
  /\ blueprint = <<>> /\ minutes = 0 /\ max_ore_cost = 0
  /\ best_result = 0 /\ best_final_state = NoState
  /\ next_states = <<>> /\ current_states = <<>> /\ t = 0 /\ pos = 1
  /\ history = <<>> /\ prune_input = <<>> /\ evaluated = EmptyCache
  /\ estimates = <<>>

Init ==
  /\ InitGlobal /\ inputs = "Inputs" /\ calls_left = 1
  /\ sim = NoSim /\ vec = NoVec /\ crates = NoCrates

InitRef ==
  /\ InitGlobal /\ inputs = "RefInputs" /\ calls_left = 1
  /\ sim = NoSim /\ vec = NoVec /\ crates = NoCrates

InitCalls ==
  /\ InitGlobal /\ inputs = "CallInputs" /\ calls_left = MaxCalls
  /\ sim = NoSim /\ vec = NoVec /\ crates = NoCrates

(***************************************************************************)
(* find_max_geodes                                                         *)
(***************************************************************************)
\* lines 181-187: the caches are replaced by empty ones, the locals are set
Call ==
  /\ pc \in {"idle", "returned"}
  /\ calls_left > 0
  /\ \E inp \in InputSet(inputs, history) :
       /\ blueprint' = inp[1]
       /\ minutes' = inp[2]
       /\ max_ore_cost' = IF Len(inp) = 3 /\ ~inp[3] THEN NoSkip
                          ELSE MaxOreCost(inp[1])
  /\ lb_cache' = NewCache(lb_cache)
  /\ ub_cache' = NewCache(ub_cache)
  /\ best_result' = 0
  /\ best_final_state' = NoState
  /\ next_states' = <<initial_state>>
  /\ current_states' = <<>>
  /\ t' = 0 /\ pos' = 1
  /\ evaluated' = EmptyCache
  /\ estimates' = <<>>
  /\ prune_input' = <<>>
  /\ calls_left' = calls_left - 1
  /\ pc' = "for_t"
  /\ UNCHANGED <<n_states_searched, ub_cache_hits, ub_cache_reads,
                 lb_cache_hits, lb_cache_reads, inputs, history, sim, vec, crates>>

\* lines 188-190: an iteration of `for t in range(minutes + 1)` starts
Level ==
  /\ pc = "for_t"
  /\ t <= minutes
  /\ current_states' = prune_strictly_worse(next_states)
  /\ prune_input' = next_states
  /\ next_states' = <<>>
  /\ estimates' = <<>>
  /\ pos' = 1
  /\ pc' = "for_state"
  /\ UNCHANGED <<n_states_searched, ub_cache, ub_cache_hits, ub_cache_reads,
                 lb_cache, lb_cache_hits, lb_cache_reads,
                 blueprint, minutes, max_ore_cost, best_result,
                 best_final_state, t, inputs, calls_left,
                 history, evaluated, sim, vec, crates>>

\* the time steps at which the estimators were called with key so far
ReadTimes(times, key) == IF key \in DOMAIN times THEN times[key] ELSE {}

\* the variables the body of `for state in current_states` changes
Locals ==
  [n_states_searched |-> n_states_searched,
   lb_cache |-> lb_cache, lb_cache_reads |-> lb_cache_reads,
   lb_cache_hits |-> lb_cache_hits,
   ub_cache |-> ub_cache, ub_cache_reads |-> ub_cache_reads,
   ub_cache_hits |-> ub_cache_hits,
   best_result |-> best_result, best_final_state |-> best_final_state,
   next_states |-> next_states, evaluated |-> evaluated,
   estimates |-> estimates]

\* lines 191-216: the body of `for state in current_states` for one state,
\* as the values of the variables after it
Body(v, state) ==
  LET key   == CacheKey(state.materials, state.robots)
      lb    == lower_bound(state, blueprint, minutes - t, v.lb_cache)
      best  == BetterResult(lb.result, v.best_result)
      ub    == upper_bound(state, blueprint, minutes - t, v.ub_cache)
  IN [n_states_searched |-> v.n_states_searched + 1,
      lb_cache |-> lb.cache,
      lb_cache_reads |-> v.lb_cache_reads + 1,
      lb_cache_hits |-> v.lb_cache_hits + (IF key \in DOMAIN v.lb_cache THEN 1 ELSE 0),
      ub_cache |-> ub.cache,
      ub_cache_reads |-> v.ub_cache_reads + 1,
      ub_cache_hits |-> v.ub_cache_hits + (IF key \in DOMAIN v.ub_cache THEN 1 ELSE 0),
      best_result |-> best,
      best_final_state |->
         IF lb.result > v.best_result THEN <<state>> ELSE v.best_final_state,
      next_states |->
         IF ub.result <= best THEN v.next_states
         ELSE v.next_states \o Successors(state, blueprint, max_ore_cost),
      evaluated |-> (key :> (ReadTimes(v.evaluated, key) \cup {t})) @@ v.evaluated,
      estimates |-> Append(v.estimates,
                           [materials |-> state.materials, robots |-> state.robots,
                            ancestors |-> Len(state.parent), t |-> t,
                            lb |-> lb.result, ub |-> ub.result,
                            expanded |-> ~(ub.result <= best)])]

\* the body for the states at positions lo..hi of current_states, in order
\* (the test on n_states_searched always succeeds; it makes the first half
\* be evaluated before the second half is entered)
RECURSIVE Bodies(_, _, _)
Bodies(v, lo, hi) ==
  IF lo > hi THEN v
  ELSE IF lo = hi THEN Body(v, current_states[lo])
  ELSE LET mid == (lo + hi) \div 2
           first == Bodies(v, lo, mid)
       IN IF first.n_states_searched > v.n_states_searched
          THEN Bodies(first, mid + 1, hi)
          ELSE first

\* the variables take the values of v
Assign(v) ==
  /\ n_states_searched' = v.n_states_searched
  /\ lb_cache' = v.lb_cache
  /\ lb_cache_reads' = v.lb_cache_reads
  /\ lb_cache_hits' = v.lb_cache_hits
  /\ ub_cache' = v.ub_cache
  /\ ub_cache_reads' = v.ub_cache_reads
  /\ ub_cache_hits' = v.ub_cache_hits
  /\ best_result' = v.best_result
  /\ best_final_state' = v.best_final_state
  /\ next_states' = v.next_states
  /\ evaluated' = v.evaluated
  /\ estimates' = v.estimates

\* one iteration of `for state in current_states` (lines 191-216)
Visit ==
  /\ pc = "for_state"
  /\ pos <= Len(current_states)
  /\ Assign(Body(Locals, current_states[pos]))
  /\ pos' = pos + 1
  /\ UNCHANGED <<pc, blueprint, minutes, max_ore_cost, current_states, t,
                 inputs, calls_left, history, prune_input, sim, vec, crates>>

\* the whole loop `for state in current_states`, run without a stop
VisitAll ==
  /\ pc = "for_state"
  /\ pos = 1
  /\ Len(current_states) >= 1
  /\ Assign(Bodies(Locals, 1, Len(current_states)))
  /\ pos' = Len(current_states) + 1
  /\ UNCHANGED <<pc, blueprint, minutes, max_ore_cost, current_states, t,
                 inputs, calls_left, history, prune_input, sim, vec, crates>>

\* the inner loop is exhausted: the next value of t
NextT ==
  /\ pc = "for_state"
  /\ pos > Len(current_states)
  /\ t' = t + 1
  /\ pc' = "for_t"
  /\ UNCHANGED <<n_states_searched, ub_cache, ub_cache_hits, ub_cache_reads,
                 lb_cache, lb_cache_hits, lb_cache_reads,
                 blueprint, minutes, max_ore_cost, best_result,
                 best_final_state, next_states, current_states, pos,
                 inputs, calls_left, history, prune_input, evaluated, estimates,
                 sim, vec, crates>>

\* line 217: return best_result, best_final_state
Return ==
  /\ pc = "for_t"
  /\ t > minutes
  /\ pc' = "returned"
  /\ history' = Append(history, [blueprint |-> blueprint, minutes |-> minutes,
                                  result |-> best_result,
                                  final_state |-> best_final_state,
                                  max_ore_cost |-> max_ore_cost,
                                  n_states_searched |-> n_states_searched])
  /\ UNCHANGED <<n_states_searched, ub_cache, ub_cache_hits, ub_cache_reads,
                 lb_cache, lb_cache_hits, lb_cache_reads,
                 blueprint, minutes, max_ore_cost, best_result,
                 best_final_state, next_states, current_states, t, pos,
                 inputs, calls_left, prune_input, evaluated, estimates,
                 sim, vec, crates>>

InitMono ==
  /\ InitGlobal /\ inputs = "Mono" /\ calls_left = 2
  /\ sim = NoSim /\ vec = NoVec /\ crates = NoCrates

InitSkip ==
  /\ InitGlobal /\ inputs = "Skip" /\ calls_left = 2
  /\ sim = NoSim /\ vec = NoVec /\ crates = NoCrates

Next == Call \/ Level \/ Visit \/ VisitAll \/ NextT \/ Return

Spec == Init /\ [][Next]_vars
SpecRef == InitRef /\ [][Next]_vars
SpecCalls == InitCalls /\ [][Next]_vars
SpecMono == InitMono /\ [][Next]_vars
SpecSkip == InitSkip /\ [][Next]_vars

(***************************************************************************)
(* The estimators applied to a drawn state, next to a build sequence that  *)
(* follows the real rules from the same state                              *)
(***************************************************************************)
InitBound ==
  /\ InitGlobal /\ inputs = "Inputs" /\ calls_left = 0
  /\ vec = NoVec /\ crates = NoCrates
  /\ \E bp \in BoundBlueprints, st \in StartStates :
        sim = [pc |-> "drawn", blueprint |-> bp,
               state |-> State(st[1], st[2], None, NoState)]

\* upper_bound and lower_bound are called on the drawn state, with fresh
\* caches, for every minutes_left up to MaxLeft
Estimate ==
  /\ sim.pc = "drawn"
  /\ sim' = [pc |-> "real", blueprint |-> sim.blueprint, state |-> sim.state,
             ub |-> [n \in 0..MaxLeft |->
                       upper_bound(sim.state, sim.blueprint, n, EmptyCache).result],
             lb |-> [n \in 0..MaxLeft |->
                       lower_bound(sim.state, sim.blueprint, n, EmptyCache).result],
             materials |-> sim.state.materials, robots |-> sim.state.robots,
             done |-> 0]
  /\ UNCHANGED <<search_vars, vec, crates>>

\* one minute under the real rules (as trace replays it, lines 240-249):
\* at most one affordable robot is paid for, the robots owned collect, and
\* the new robot is ready afterwards
Minute ==
  /\ sim.pc = "real"
  /\ sim.done < MaxLeft
  /\ \E built_robot \in {None, ORE, CLAY, OBSIDIAN, GEODE} :
       /\ built_robot # None => Le(sim.blueprint[built_robot], sim.materials)
       /\ sim' = [sim EXCEPT
            !.materials = IF built_robot = None THEN Add(sim.materials, sim.robots)
                          ELSE Add(Sub(sim.materials, sim.blueprint[built_robot]), sim.robots),
            !.robots = IF built_robot = None THEN sim.robots
                       ELSE AddOneResource(sim.robots, built_robot),
            !.done = sim.done + 1]
  /\ UNCHANGED <<search_vars, vec, crates>>

NextBound == Estimate \/ Minute
SpecBound == InitBound /\ [][NextBound]_vars

(***************************************************************************)
(* The MaterialSet operations applied to two drawn vectors                 *)
(***************************************************************************)
InitVec ==
  /\ InitGlobal /\ inputs = "Inputs" /\ calls_left = 0
  /\ sim = NoSim /\ crates = NoCrates
  /\ \E a \in Vectors, b \in Vectors : vec = [pc |-> "drawn", a |-> a, b |-> b]

ApplyVec ==
  /\ vec.pc = "drawn"
  /\ vec' = [pc |-> "applied", a |-> vec.a, b |-> vec.b,
             le_aa |-> Le(vec.a, vec.a),
             le_ab |-> Le(vec.a, vec.b),
             le_ba |-> Le(vec.b, vec.a),
             eq_ab |-> Eq(vec.a, vec.b),
             sum |-> Add(vec.a, vec.b),
             sum_minus_b |-> Sub(Add(vec.a, vec.b), vec.b)]
  /\ UNCHANGED <<search_vars, sim, crates>>

NextVec == ApplyVec
SpecVec == InitVec /\ [][NextVec]_vars



(***************************************************************************)
(* Two drawn states, one below the other in every component, and the       *)
(* largest geode count reachable from each under the real rules            *)
(***************************************************************************)
\* the largest geode count over all build sequences of `left` minutes from
\* (materials, robots) under the real rules
RECURSIVE MaxGeodes(_, _, _, _)
MaxGeodes(materials, robots, bp, left) ==
  IF left <= 0 THEN materials[GEODE]
  ELSE LET wait == MaxGeodes(Add(materials, robots), robots, bp, left - 1)
           build(r) == IF Le(bp[r], materials)
                       THEN MaxGeodes(Add(Sub(materials, bp[r]), robots),
                                      AddOneResource(robots, r), bp, left - 1)
                       ELSE 0
           Max(x, y) == IF x >= y THEN x ELSE y
       IN Max(Max(wait, build(ORE)), Max(Max(build(CLAY), build(OBSIDIAN)), build(GEODE)))

\* the pairs (s, other): s.materials <= other.materials and
\* s.robots <= other.robots, the test of line 172
DominancePairs ==
  { p \in StartStates \X StartStates :
       Le(p[1][1], p[2][1]) /\ Le(p[1][2], p[2][2]) }

InitDom ==
  /\ InitGlobal /\ inputs = "Inputs" /\ calls_left = 0
  /\ vec = NoVec /\ crates = NoCrates
  /\ \E bp \in CallBlueprints, p \in DominancePairs :
        sim = [pc |-> "pair", blueprint |-> bp,
               state |-> State(p[1][1], p[1][2], None, NoState),
               other |-> State(p[2][1], p[2][2], None, NoState)]

\* the largest geode count reachable from each state of the pair, for every
\* number of remaining steps up to MaxDomLeft
Reach ==
  /\ sim.pc = "pair"
  /\ sim' = [pc |-> "reached", blueprint |-> sim.blueprint,
             state |-> sim.state, other |-> sim.other,
             best |-> [n \in 0..MaxDomLeft |->
                        MaxGeodes(sim.state.materials, sim.state.robots,
                                  sim.blueprint, n)],
             best_other |-> [n \in 0..MaxDomLeft |->
                        MaxGeodes(sim.other.materials, sim.other.robots,
                                  sim.blueprint, n)]]
  /\ UNCHANGED <<search_vars, vec, crates>>

NextDom == Reach
SpecDom == InitDom /\ [][NextDom]_vars

(***************************************************************************)
(* day5_1.py: execute_move                                                 *)
(***************************************************************************)
\* the characters \d matches, in the order of their values
DigitChars == <<"0", "1", "2", "3", "4", "5", "6", "7", "8", "9">>
IsDigit(c) == \E d \in 1..10 : DigitChars[d] = c
DigitValue(c) == (CHOOSE d \in 1..10 : DigitChars[d] = c) - 1

\* the decimal digits of n, as an input file writes it
RECURSIVE Decimal(_)
Decimal(n) ==
  IF n < 10 THEN <<DigitChars[n + 1]>>
  ELSE Append(Decimal(n \div 10), DigitChars[(n % 10) + 1])

\* the literal parts of the pattern of line 28
LitMove == <<"m", "o", "v", "e", " ">>
LitFrom == <<" ", "f", "r", "o", "m", " ">>
LitTo == <<" ", "t", "o", " ">>

\* the position after the literal lit matched at position p of line; 0 if
\* it does not match there or p is 0
AfterLiteral(line, p, lit) ==
  IF /\ p >= 1
     /\ p + Len(lit) - 1 <= Len(line)
     /\ \A i \in 1..Len(lit) : line[p + i - 1] = lit[i]
  THEN p + Len(lit) ELSE 0

\* the position after the longest run of digits that starts at position p
RECURSIVE AfterDigits(_, _)
AfterDigits(line, p) ==
  IF p >= 1 /\ p <= Len(line) /\ IsDigit(line[p])
  THEN AfterDigits(line, p + 1) ELSE p

\* the position after \d+ matched at position p; 0 if there is no digit
AfterNumber(line, p) ==
  IF p >= 1 /\ AfterDigits(line, p) > p THEN AfterDigits(line, p) ELSE 0

\* int() of the digits at positions from..to - 1 of line
RECURSIVE ToInt(_, _, _)
ToInt(line, from, to) ==
  IF to <= from THEN 0
  ELSE 10 * ToInt(line, from, to - 1) + DigitValue(line[to - 1])

\* re.match of line 28 and the int() conversions of lines 30-32
Match(line) ==
  LET p1 == AfterLiteral(line, 1, LitMove)
      p2 == AfterNumber(line, p1)
      p3 == AfterLiteral(line, p2, LitFrom)
      p4 == AfterNumber(line, p3)
      p5 == AfterLiteral(line, p4, LitTo)
      p6 == AfterNumber(line, p5)
  IN IF p6 = 0 THEN [matched |-> FALSE]
     ELSE [matched |-> TRUE,
           count |-> ToInt(line, p1, p2),
           source_stack |-> ToInt(line, p3, p4),
           dest_stack |-> ToInt(line, p5, p6)]

\* stacks[k] of a defaultdict(list): a missing key is created with []
Touch(stacks, k) == IF k \in DOMAIN stacks THEN stacks ELSE (k :> <<>>) @@ stacks

\* a bug of line 35: the container is appended below the others
MoveOneBelow(stacks, source_stack, dest_stack) ==
  LET s1 == Touch(stacks, source_stack)
      container == Head(s1[source_stack])
      s2 == [s1 EXCEPT ![source_stack] = Tail(s1[source_stack])]
      s3 == Touch(s2, dest_stack)
  IN [s3 EXCEPT ![dest_stack] = Append(s3[dest_stack], container)]

\* lines 34-35 for a non-empty source stack:
\* container = stacks[source_stack].pop(0); stacks[dest_stack].insert(0, container)
MoveOne(stacks, source_stack, dest_stack) ==
  LET s1 == Touch(stacks, source_stack)
      container == Head(s1[source_stack])
      s2 == [s1 EXCEPT ![source_stack] = Tail(s1[source_stack])]
      s3 == Touch(s2, dest_stack)
  IN [s3 EXCEPT ![dest_stack] = <<container>> \o s3[dest_stack]]

\* the loop of lines 33-35 with `left` iterations to go: the stacks at its
\* end, and whether pop(0) raised IndexError on an empty list
RECURSIVE MoveLoop(_, _, _, _)
MoveLoop(stacks, source_stack, dest_stack, left) ==
  IF left = 0 THEN [stacks |-> stacks, raised |-> FALSE]
  ELSE IF Touch(stacks, source_stack)[source_stack] = <<>>
       THEN [stacks |-> Touch(stacks, source_stack), raised |-> TRUE]
       ELSE MoveLoop(MoveOne(stacks, source_stack, dest_stack),
                     source_stack, dest_stack, left - 1)

\* the containers, and the lists of at most MaxHeight of them
Containers == {"A", "B"}
Piles == UNION { [1..h -> Containers] : h \in 0..MaxHeight }

\* the stacks: a dictionary whose keys are some of the stack numbers 1, 2
DrawnStacks == UNION { [D -> Piles] : D \in SUBSET {1, 2} }

\* the line 'move n from a to b' with its newline
MoveLine(n, a, b) ==
  LitMove \o Decimal(n) \o LitFrom \o Decimal(a) \o LitTo \o Decimal(b) \o <<"\n">>

\* the lines of the form 'move n from a to b', each with n, a and b
FormLines ==
  { [text |-> MoveLine(n, a, b), form |-> TRUE, n |-> n, a |-> a, b |-> b] :
      n \in (0..MaxNumber) \cup {10}, a \in 0..MaxNumber, b \in 0..MaxNumber }
  \cup
  { \* written with a leading zero, and without a newline
    [text |-> LitMove \o <<"0", "2">> \o LitFrom \o <<"0", "1">> \o LitTo \o <<"2">>,
     form |-> TRUE, n |-> 2, a |-> 1, b |-> 2],
    \* followed by more text
    [text |-> LitMove \o <<"1">> \o LitFrom \o <<"2">> \o LitTo \o <<"1", " ", "x", "\n">>,
     form |-> TRUE, n |-> 1, a |-> 2, b |-> 1] }

\* lines that contain "move" and are not of that form
OtherLines ==
  { [text |-> <<"m", "o", "v", "e", "\n">>, form |-> FALSE],
    [text |-> <<" ">> \o MoveLine(1, 1, 2), form |-> FALSE],
    [text |-> LitMove \o <<"x">> \o LitFrom \o <<"1">> \o LitTo \o <<"2", "\n">>, form |-> FALSE],
    [text |-> LitMove \o <<"1">> \o LitFrom \o <<"1">> \o <<" ", "t", "o", "\n">>, form |-> FALSE] }

InitMove ==
  /\ InitGlobal /\ inputs = "Inputs" /\ calls_left = 0
  /\ sim = NoSim /\ vec = NoVec
  /\ \E st \in DrawnStacks, ln \in FormLines \cup OtherLines :
        crates = [pc |-> "line", stacks |-> st, line |-> ln, old |-> st]

\* execute_move(line, stacks): the moves are made, or an exception is raised
\* (line 38 for a line that does not match, IndexError from pop(0))
execute_move ==
  /\ crates.pc = "line"
  /\ LET match == Match(crates.line.text)
     IN IF ~match.matched
        THEN crates' = [crates EXCEPT !.pc = "raised"]
        ELSE LET loop == MoveLoop(crates.stacks, match.source_stack,
                                   match.dest_stack, match.count)
             IN crates' = [crates EXCEPT
                             !.pc = IF loop.raised THEN "raised" ELSE "moved",
                             !.stacks = loop.stacks]
  /\ UNCHANGED <<search_vars, sim, vec>>

NextMove == execute_move
SpecMove == InitMove /\ [][NextMove]_vars

(***************************************************************************)
(* Properties                                                              *)
(***************************************************************************)
\* C1: for every blueprint and minutes >= 0, the best_result returned by
\* find_max_geodes is the maximum geode count over all feasible build
\* sequences of `minutes` steps from the initial state.
C1_ReturnsMaximum ==
  (pc = "returned" /\ minutes >= 0) =>
     best_result = MaxGeodes(initial_state.materials, initial_state.robots,
                             blueprint, minutes)

\* C2: upper_bound is admissible: its value for (state, minutes_left) is at
\* least the geode count of every feasible build sequence of minutes_left
\* minutes from that state.
C2_UpperBoundAdmissible ==
  sim.pc = "real" => sim.ub[sim.done] >= sim.materials[GEODE]

\* C3: for every non-negative state, blueprint and minutes_left, the value of
\* upper_bound is at least the value of lower_bound.
C3_UpperAtLeastLower ==
  sim.pc = "real" => \A n \in 0..MaxLeft : sim.ub[n] >= sim.lb[n]

\* the lower bound builds geode robots and the upper bound lies above it
C3_Witness ==
  /\ sim.pc = "real"
  /\ sim.lb[MaxLeft] >= 2
  /\ sim.ub[MaxLeft] > sim.lb[MaxLeft]

\* C4: for a fixed blueprint, the best_result of find_max_geodes with
\* minutes + 1 is at least the best_result with minutes.
C4_MonotoneInMinutes ==
  \A i \in 1..Len(history), j \in 1..Len(history) :
     (history[i].blueprint = history[j].blueprint
        /\ history[j].minutes = history[i].minutes + 1)
     => history[j].result >= history[i].result

\* a call with one more minute has returned strictly more geodes
C4_Witness ==
  /\ Len(history) = 2
  /\ history[1].blueprint = history[2].blueprint
  /\ history[2].minutes = history[1].minutes + 1
  /\ history[1].result > 0
  /\ history[2].result > history[1].result

\* C5: the best_result of find_max_geodes for given arguments is the same
\* whatever calls ran before it in the same process.
C5_HistoryIndependent ==
  \A i \in 1..Len(history), j \in 1..Len(history) :
     (history[i].blueprint = history[j].blueprint
        /\ history[i].minutes = history[j].minutes)
     => history[j].result = history[i].result

\* the same arguments were searched first and again after a different call
C5_Witness ==
  /\ Len(history) = 3
  /\ history[1].blueprint = history[3].blueprint
  /\ history[1].minutes = history[3].minutes
  /\ history[2].minutes > history[1].minutes
  /\ history[2].result > history[1].result
  /\ history[3].result > 0

\* state s of the list is below another, non-identical state of the list in
\* every component of materials and robots
Dominated(s, states) ==
  \E j \in 1..Len(states) :
     /\ <<states[j].materials, states[j].robots>> # <<s.materials, s.robots>>
     /\ \A k \in 1..4 : /\ s.materials[k] <= states[j].materials[k]
                        /\ s.robots[k] <= states[j].robots[k]

\* C6: prune_strictly_worse never returns an empty list for a non-empty
\* input, and keeps every state that no non-identical state of the input
\* dominates.
C6_PruneKeepsUndominated ==
  pc = "for_state" =>
     /\ prune_input # <<>> => current_states # <<>>
     /\ \A i \in 1..Len(prune_input) :
           ~Dominated(prune_input[i], prune_input)
             => \E k \in 1..Len(current_states) : current_states[k] = prune_input[i]

\* a pruning that removed a state and kept two
C6_Witness ==
  /\ pc = "for_state"
  /\ Len(current_states) >= 2
  /\ Len(prune_input) > Len(current_states)

\* C7: find_max_geodes with minutes < 0 fails instead of returning a value.
C7_NegativeMinutesFail ==
  pc = "returned" => minutes >= 0

\* C8: with minutes = 24, find_max_geodes returns 9 for blueprint 1 and 12
\* for blueprint 2 of the reference scenario.
C8_ReferenceScenario ==
  (pc = "returned" /\ minutes = 24) =>
     /\ blueprint = Blueprint1 => best_result = 9
     /\ blueprint = Blueprint2 => best_result = 12

\* the search of blueprint 2 over 24 minutes has returned
C8_Witness ==
  pc = "returned" /\ minutes = 24 /\ blueprint = Blueprint2 /\ best_result = 12

\* C9: for all vectors a, b: a <= a; a <= b and b <= a imply a == b; and
\* (a + b) - b == a.
C9_VectorLaws ==
  vec.pc = "applied" =>
     /\ vec.le_aa
     /\ (vec.le_ab /\ vec.le_ba) => vec.eq_ab
     /\ vec.sum_minus_b = vec.a

\* two different comparable vectors with a negative component were combined
C9_Witness ==
  /\ vec.pc = "applied"
  /\ vec.le_ab /\ ~vec.le_ba
  /\ vec.b[GEODE] < 0
  /\ vec.sum # vec.a

\* C10: within one run, no (materials, robots) pair is handed to the
\* estimators at two different time steps.
C10_OneTimePerKey ==
  \A key \in DOMAIN evaluated : Cardinality(evaluated[key]) <= 1

\* C11: within one run, every value that lower_bound or upper_bound returns
\* for a state visited at step t, from the cache or freshly computed, is the
\* value the estimator computes without a cache for (materials, robots,
\* minutes - t).
C11_MemoizationTransparent ==
  \A i \in 1..Len(estimates) :
     LET e == estimates[i]
     IN /\ e.lb = LowerBoundLoop(e.materials, e.robots, blueprint, minutes - e.t)
        /\ e.ub = UpperBoundLoop(e.materials, e.robots, blueprint, minutes - e.t)

\* C12: for two non-negative states s and s' at the same time step with
\* s.materials <= s'.materials and s.robots <= s'.robots, the largest geode
\* count reachable from s in the remaining steps under the real rules is at
\* most the largest reachable from s'.
C12_DominanceSound ==
  sim.pc = "reached" =>
     \A n \in 0..MaxDomLeft : sim.best[n] <= sim.best_other[n]

\* a state that reaches geodes lies below a different state that reaches more
C12_Witness ==
  /\ sim.pc = "reached"
  /\ sim.state # sim.other
  /\ sim.best[MaxDomLeft] >= 1
  /\ sim.best_other[MaxDomLeft] > sim.best[MaxDomLeft]

\* C13: for every blueprint and minutes, find_max_geodes returns the same
\* best_result as the same search without the ore-robot skip.
C13_OreSkipSameResult ==
  \A i \in 1..Len(history), j \in 1..Len(history) :
     (/\ history[i].blueprint = history[j].blueprint
      /\ history[i].minutes = history[j].minutes
      /\ history[i].max_ore_cost = MaxOreCost(history[i].blueprint)
      /\ history[j].max_ore_cost = NoSkip)
     => history[j].result = history[i].result

\* the search without the skip visited more states and returned geodes
C13_Witness ==
  /\ Len(history) = 2
  /\ history[2].max_ore_cost = NoSkip
  /\ history[2].n_states_searched - history[1].n_states_searched
       > history[1].n_states_searched
  /\ history[2].result > 0

\* materials and robots of the state have no negative component, and there
\* is at least one ore robot
NonNegative(state) ==
  /\ \A k \in 1..4 : state.materials[k] >= 0 /\ state.robots[k] >= 0
  /\ state.robots[ORE] >= 1

\* C14: for a blueprint with non-negative costs, every State that
\* find_max_geodes places in a frontier, and so every state passed to
\* prune_strictly_worse, lower_bound or upper_bound, has no negative
\* component of materials or robots, and robots.ore >= 1.
C14_NonNegative ==
  /\ \A i \in 1..Len(next_states) : NonNegative(next_states[i])
  /\ \A i \in 1..Len(prune_input) : NonNegative(prune_input[i])
  /\ \A i \in 1..Len(current_states) : NonNegative(current_states[i])
  /\ \A i \in 1..Len(estimates) :
        /\ \A k \in 1..4 : estimates[i].materials[k] >= 0 /\ estimates[i].robots[k] >= 0
        /\ estimates[i].robots[ORE] >= 1

\* a frontier holds a state whose obsidian robot was paid for with all the
\* ore and all the clay held
C14_Witness ==
  /\ pc = "for_state"
  /\ blueprint[OBSIDIAN][CLAY] >= 1
  /\ \E i \in 1..Len(next_states) :
        /\ next_states[i].built_robot_type = OBSIDIAN
        /\ next_states[i].materials[ORE] = next_states[i].robots[ORE]
        /\ next_states[i].materials[CLAY] = next_states[i].robots[CLAY]

C16_AnswerWitnessed ==
  (pc = "returned" /\ best_result > 0) =>
     LET replay == trace(best_final_state, blueprint, minutes)
     IN replay.affordable /\ replay.geodes = best_result

\* the returned state was reached by building a robot, at least two steps
\* were left to the geode policy, and more than one geode was returned
C16_Witness ==
  /\ pc = "returned" /\ best_result >= 2
  /\ Len(path(best_final_state)) + 2 <= minutes
  /\ \E i \in 1..Len(path(best_final_state)) : path(best_final_state)[i] \notin {None, GEODE}

\* the number of ancestors of every state of the list is n
AllAtLevel(states, n) ==
  \A i \in 1..Len(states) : Len(states[i].parent) = n

\* the estimates are those of the first n states of current_states, in
\* order, all made in iteration step
EstimatesOfFirst(n, step) ==
  /\ Len(estimates) = n
  /\ \A i \in 1..Len(estimates) :
        /\ estimates[i].t = step
        /\ estimates[i].ancestors = step
        /\ estimates[i].materials = current_states[i].materials
        /\ estimates[i].robots = current_states[i].robots

\* the states of next_states that wait: one for every expanded state
Waiting == SelectSeq(next_states, LAMBDA s : s.built_robot_type = None)
Expanded == SelectSeq(estimates, LAMBDA e : e.expanded)

\* C17: every state that find_max_geodes prunes and bound-evaluates in
\* iteration t has a parent chain of exactly t ancestors, and no state of
\* level t + 1 is pruned or bound-evaluated before every surviving state of
\* level t has been bound-evaluated and, if kept, expanded.
C17_LevelSynchronized ==
  /\ pc = "for_state" =>
        /\ AllAtLevel(prune_input, t) /\ AllAtLevel(current_states, t)
        /\ AllAtLevel(next_states, t + 1)
        /\ EstimatesOfFirst(pos - 1, t)
        /\ Len(Waiting) = Len(Expanded)
  /\ (pc = "for_t" /\ t >= 1) =>
        /\ AllAtLevel(current_states, t - 1)
        /\ AllAtLevel(next_states, t)
        /\ EstimatesOfFirst(Len(current_states), t - 1)
        /\ Len(Waiting) = Len(Expanded)

\* an iteration is over in which some states were expanded and some were
\* discarded, and the next list waits to be pruned
C17_Witness ==
  /\ pc = "for_t" /\ t >= 3 /\ t <= minutes
  /\ Len(estimates) >= 3
  /\ Len(Expanded) >= 2
  /\ Len(Expanded) < Len(estimates)
  /\ Len(next_states) > Len(Expanded)

\* C18: during a find_max_geodes run best_result never decreases, and the
\* returned best_final_state is None exactly when the returned best_result
\* is 0; path() of it is then the empty list.
C18_BestResultGrows ==
  [][ /\ pc \in {"for_t", "for_state"} => best_result' >= best_result
      /\ pc' = "returned" =>
            /\ best_final_state' = NoState <=> best_result' = 0
            /\ best_result' = 0 => path(best_final_state') = <<>> ]_vars

\* a search that visited several states has found no geodes and returned
\* no State
C18_Witness ==
  /\ pc = "returned" /\ minutes >= 4
  /\ n_states_searched >= 4
  /\ best_result = 0 /\ best_final_state = NoState

\* the list of stack k; the empty list if the key is missing
StackOf(stacks, k) == IF k \in DOMAIN stacks THEN stacks[k] ELSE <<>>

\* the first n containers of the list in reversed order
RECURSIVE ReversedFirst(_, _)
ReversedFirst(pile, n) ==
  IF n = 0 THEN <<>> ELSE Append(ReversedFirst(Tail(pile), n - 1), Head(pile))

\* how many times container c lies on the stacks with keys in D
RECURSIVE Total(_, _, _)
Total(stacks, D, c) ==
  IF D = {} THEN 0
  ELSE LET k == CHOOSE x \in D : TRUE
       IN Cardinality({i \in 1..Len(stacks[k]) : stacks[k][i] = c})
            + Total(stacks, D \ {k}, c)

\* C19: for a line 'move n from a to b' with a # b and n at most the number
\* of containers on stack a, after execute_move stack b is the first n
\* containers of the old stack a in reversed order followed by the old stack
\* b, stack a is the old stack a without its first n containers, every other
\* stack is unchanged, and the multiset of containers is conserved.
C19_MoveFrame ==
  (/\ crates.pc \in {"moved", "raised"}
   /\ crates.line.form
   /\ crates.line.a # crates.line.b
   /\ crates.line.n <= Len(StackOf(crates.old, crates.line.a)))
  => LET n == crates.line.n
         a == crates.line.a
         b == crates.line.b
         old_a == StackOf(crates.old, a)
     IN /\ crates.pc = "moved"
        /\ StackOf(crates.stacks, b) = ReversedFirst(old_a, n) \o StackOf(crates.old, b)
        /\ StackOf(crates.stacks, a) = SubSeq(old_a, n + 1, Len(old_a))
        /\ \A k \in (DOMAIN crates.stacks \cup DOMAIN crates.old) \ {a, b} :
              StackOf(crates.stacks, k) = StackOf(crates.old, k)
        /\ \A c \in Containers :
              Total(crates.stacks, DOMAIN crates.stacks, c)
                = Total(crates.old, DOMAIN crates.old, c)

\* two containers were moved, one after the other, onto a stack that held
\* a container
C19_Witness ==
  /\ crates.pc = "moved" /\ crates.line.form
  /\ crates.line.n = 2 /\ crates.line.a # crates.line.b
  /\ StackOf(crates.old, crates.line.a) = <<"A", "B">>
  /\ Len(StackOf(crates.old, crates.line.b)) >= 1
  /\ StackOf(crates.stacks, crates.line.b)[1] = "B"

====
